---- MODULE Spec2Model ----
(***************************************************************************)
(* A model of paletteSwap (src/src/palette-swap.ts).                       *)
(*                                                                         *)
(* Representation.                                                         *)
(*  - A HEX string "#rrggbb" is the tuple of its six hex digits after the  *)
(*    '#', each a number in 0..15.                                         *)
(*  - A 32-bit word of a Uint32Array over an RGBA byte buffer is the tuple *)
(*    of its four bytes in memory order, <<r, g, b, a>> (little-endian:    *)
(*    the word's low byte is r, its high byte is a).  The same tuple is    *)
(*    what ImageData.data shows of the pixel.                              *)
(*  - A packed 24-bit colour (a JS number) is a natural number.            *)
(*  - null / undefined is the empty tuple None, a present value v is       *)
(*    Some(v) = <<v>>.                                                     *)
(*  - JS floating point in applyHue is computed with exact rationals       *)
(*    <<numerator, denominator>> in lowest terms.                          *)
(***************************************************************************)
EXTENDS Integers, Sequences, FiniteSets, TLC

VARIABLES
    image,              \* the source image drawn on the canvas: [width, height, data]
    inputVariants,      \* ordered Map VariantName -> palette, a sequence of [name, palette]
    staticColors,       \* None (omitted or null) or Some(set of HEX)
    images,             \* Map VariantName -> prior image; a function name -> None | Some(image)
    ignoreMissing,      \* options?.ignoreMissing
    pc,                 \* position in paletteSwap
    i,                  \* the loop counter of the compile loop and of the diff loop
    x,                  \* pixel loop: column
    y,                  \* pixel loop: row
    palettes,           \* Map packed colour -> sparse array (variant index -> packed colour)
    variants,           \* sequence of [name, data, hue]
    staticColorNumbers, \* None or Some(set of packed colours)
    missing,            \* the Set<[VariantName, number]>, in insertion order
    results,            \* the result Map, in insertion order: sequence of [name, data]
    thrown              \* None, or Some([kind, colors, names]) once an exception is thrown

vars == <<image, inputVariants, staticColors, images, ignoreMissing, pc, i, x, y,
          palettes, variants, staticColorNumbers, missing, results, thrown>>

\* The largest number of pixels (width * height) of an image the model draws.
MaxPixels == 2

None == <<>>
Some(v) == <<v>>

---------------------------------------------------------------------------
\* Numbers

Abs(n) == IF n < 0 THEN -n ELSE n

RECURSIVE GCD(_, _)
GCD(a, b) == IF b = 0 THEN a ELSE GCD(b, a % b)

\* The rational n / d (d > 0) in lowest terms.
Rat(n, d) == LET g == GCD(Abs(n), d) IN <<n \div g, d \div g>>

RAdd(p, q) == Rat(p[1] * q[2] + q[1] * p[2], p[2] * q[2])
RSub(p, q) == Rat(p[1] * q[2] - q[1] * p[2], p[2] * q[2])
RMul(p, q) == Rat(p[1] * q[1], p[2] * q[2])
\* p / q for q > 0
RDiv(p, q) == Rat(p[1] * q[2], p[2] * q[1])
RLt(p, q) == p[1] * q[2] < q[1] * p[2]
RLe(p, q) == p[1] * q[2] <= q[1] * p[2]
RInt(n) == <<n, 1>>
RMin(p, q) == IF RLt(q, p) THEN q ELSE p
RMax(p, q) == IF RLt(p, q) THEN q ELSE p

\* ToInt32 of a number: the fraction is dropped (towards zero).
ToInt32(p) == IF p[1] >= 0 THEN p[1] \div p[2] ELSE -((-p[1]) \div p[2])

\* a | b on non-negative integers
RECURSIVE BitOr(_, _)
BitOr(a, b) ==
    IF a = 0 THEN b
    ELSE IF b = 0 THEN a
    ELSE (IF a % 2 = 1 \/ b % 2 = 1 THEN 1 ELSE 0) + 2 * BitOr(a \div 2, b \div 2)

\* value << n for a number value: ToInt32, then the shift.
Shl(p, n) == ToInt32(p) * (2 ^ n)

---------------------------------------------------------------------------
\* Colour conversions

\* color: a packed number; [(color >> 16) & 0xff, (color >> 8) & 0xff, color & 0xff]
int32ToRgb(color) ==
    <<(color \div 65536) % 256, (color \div 256) % 256, color % 256>>

\* Number.parseInt(hex.slice(1), 16): the digits after '#', most significant first
RECURSIVE parseInt16(_)
parseInt16(digits) ==
    IF digits = <<>> THEN 0
    ELSE 16 * parseInt16(SubSeq(digits, 1, Len(digits) - 1)) + digits[Len(digits)]

hexToInt32(h) ==
    LET n == parseInt16(h) % 16777216
        rgb == int32ToRgb(n)
    IN  BitOr(BitOr(rgb[3] * 65536, rgb[2] * 256), rgb[1])

\* Math.round(value).toString(16).padStart(2, '0') of a byte: two hex digits
hex(value) == <<value \div 16, value % 16>>

rgbToHex(rgb) == hex(rgb[1]) \o hex(rgb[2]) \o hex(rgb[3])

int32ToHex(color) == rgbToHex(int32ToRgb(color))

\* PackResult with the first channel shifted one bit too far
PackResultShift17(result) ==
    BitOr(BitOr(Shl(result[1], 17), Shl(result[2], 8)), ToInt32(result[3]))

\* (result[0] << 16) | (result[1] << 8) | result[2]
PackResult(result) ==
    BitOr(BitOr(Shl(result[1], 16), Shl(result[2], 8)), ToInt32(result[3]))

applyHue(rgb, hue) ==
    LET h == Rat(hue, 360)
        r == Rat(rgb[1], 255)
        g == Rat(rgb[2], 255)
        b == Rat(rgb[3], 255)
        min == RMin(RMin(r, g), b)
        max == RMax(RMax(r, g), b)
        delta == RSub(max, min)
        l == RDiv(RAdd(min, max), RInt(2))
        s == IF max = min THEN RInt(0)
             ELSE IF RLe(l, Rat(1, 2)) THEN RDiv(delta, RAdd(max, min))
             ELSE RDiv(delta, RSub(RSub(RInt(2), max), min))
        t2 == IF RLt(l, Rat(1, 2)) THEN RMul(l, RAdd(RInt(1), s))
              ELSE RSub(RAdd(l, s), RMul(l, s))
        t1 == RSub(RMul(RInt(2), l), t2)
        \* one turn of the loop over i = 0, 1, 2
        channel(k) ==
            LET t3a == RAdd(h, RMul(Rat(1, 3), RInt(-(2 - k - 1))))
                t3b == IF RLt(t3a, RInt(0)) THEN RAdd(t3a, RInt(1)) ELSE t3a
                t3 == IF RLt(RInt(1), t3b) THEN RSub(t3b, RInt(1)) ELSE t3b
                val == IF RLt(RMul(RInt(6), t3), RInt(1))
                           THEN RAdd(t1, RMul(RMul(RSub(t2, t1), RInt(6)), t3))
                       ELSE IF RLt(RMul(RInt(2), t3), RInt(1)) THEN t2
                       ELSE IF RLt(RMul(RInt(3), t3), RInt(2))
                           THEN RAdd(t1, RMul(RMul(RSub(t2, t1), RSub(Rat(2, 3), t3)), RInt(6)))
                       ELSE t1
            IN  RMul(val, RInt(255))
    IN  IF s = RInt(0)
        THEN LET val == RMul(l, RInt(255)) IN PackResult(<<val, val, val>>)
        ELSE PackResult(<<channel(0), channel(1), channel(2)>>)

---------------------------------------------------------------------------
\* Words of a Uint32Array over RGBA bytes

\* (originalColor >> 24) & 0xff
AlphaOf(word) == word[4]

\* originalColor & 0x00ffffff
ColorOf(word) == word[1] + 256 * word[2] + 65536 * word[3]

\* the bytes stored by  buffer[index] = (a << 24) | color
PackWord(a, color) ==
    <<color % 256, (color \div 256) % 256, (color \div 65536) % 256,
      BitOr(a, (color \div 16777216) % 256)>>

ZeroWord == <<0, 0, 0, 0>>

\* new Uint8ClampedArray(width * height * 4), as words
ZeroData(width, height) == [k \in 1..(width * height) |-> ZeroWord]

\* createCanvasFromImage(img).getContext('2d').getImageData(0, 0, width, height):
\* an ImageData of the asked size; pixels outside the canvas are transparent black.
GetImageData(img, width, height) ==
    [width |-> width, height |-> height,
     data |-> [k \in 1..(width * height) |->
                 LET px == (k - 1) % width
                     py == (k - 1) \div width
                 IN  IF px < img.width /\ py < img.height
                     THEN img.data[py * img.width + px + 1]
                     ELSE ZeroWord]]

\* the bytes of an ImageData's data, in order
Bytes(data) == [k \in 1..(4 * Len(data)) |-> data[((k - 1) \div 4) + 1][((k - 1) % 4) + 1]]

\* equals with a loop that stops one byte early
equalsShort(a, b) ==
    IF a.width # b.width \/ a.height # b.height THEN FALSE
    ELSE \A k \in 1..(4 * Len(a.data) - 1) :
            k <= 4 * Len(b.data) /\ Bytes(a.data)[k] = Bytes(b.data)[k]

equals(a, b) ==
    IF a.width # b.width \/ a.height # b.height THEN FALSE
    ELSE \A k \in 1..(4 * Len(a.data)) :
            k <= 4 * Len(b.data) /\ Bytes(a.data)[k] = Bytes(b.data)[k]

---------------------------------------------------------------------------
\* The arguments of a call

\* HEX strings
HexBrown == <<9, 0, 3, 0, 2, 0>>       \* '#903020'
HexGreen == <<0, 0, 10, 8, 0, 0>>      \* '#00a800'
HexBlack == <<0, 0, 0, 0, 0, 0>>       \* '#000000'
HexPurple == <<5, 7, 0, 0, 6, 1>>      \* '#570061'
HexPink == <<13, 14, 0, 0, 15, 8>>     \* '#de00f8'
HexWhite == <<15, 8, 15, 8, 15, 8>>    \* '#f8f8f8'

\* Pixels of a source image, as <<r, g, b, a>>
PxClear == <<0, 0, 0, 0>>              \* transparent black
PxGhost == <<144, 48, 32, 0>>          \* alpha 0 over colour bytes
PxBrown == <<144, 48, 32, 255>>
PxGreen == <<0, 168, 0, 128>>
PxBlack == <<0, 0, 0, 255>>
PxFaint == <<248, 248, 248, 1>>

SourcePixels == {PxClear, PxGhost, PxBrown, PxGreen, PxBlack, PxFaint}
PriorPixels == {PxClear, PxBlack}

\* width x height with at most MaxPixels pixels
Shapes == {wh \in (1..MaxPixels) \X (1..MaxPixels) : wh[1] * wh[2] <= MaxPixels}

ImagesOver(pixels) ==
    UNION {{[width |-> wh[1], height |-> wh[2], data |-> d] :
               d \in [1..(wh[1] * wh[2]) -> pixels]} : wh \in Shapes}

\* A value of a colour table: a HEX string or a number (a Hue)
HexValue(h) == [type |-> "string", hex |-> h, number |-> 0]
NumberValue(n) == [type |-> "number", hex |-> <<>>, number |-> n]

\* A palette: a Map HEX -> value (its entries in insertion order) or a Hue
Table(entries) == [type |-> "object", entries |-> entries, number |-> 0]
UniformHue(n) == [type |-> "number", entries |-> <<>>, number |-> n]

TableEmpty == Table(<<>>)
TableFull ==
    Table(<<<<HexBrown, HexValue(HexPurple)>>, <<HexGreen, HexValue(HexPink)>>,
            <<HexBlack, HexValue(HexWhite)>>>>)
TableBrown == Table(<<<<HexBrown, HexValue(HexPurple)>>>>)
TableToBlack == Table(<<<<HexBrown, HexValue(HexBlack)>>, <<HexGreen, HexValue(HexPink)>>>>)
TableHue == Table(<<<<HexGreen, HexValue(HexPink)>>, <<HexBrown, NumberValue(130)>>>>)

Variant(name, palette) == [name |-> name, palette |-> palette]

VariantInputs ==
    { <<Variant(2, TableFull)>>,
      <<Variant(2, TableEmpty)>>,
      <<Variant(3, UniformHue(220))>>,
      <<Variant(2, TableHue)>>,
      <<Variant(2, TableFull), Variant(3, UniformHue(220))>>,
      <<Variant(2, TableToBlack), Variant(3, TableBrown)>>,
      <<Variant(2, TableBrown), Variant(3, UniformHue(0))>> }

StaticInputs == {None, Some({HexBlack}), Some({HexBlack, HexBrown})}

Names(vs) == {vs[k].name : k \in 1..Len(vs)}

\* No prior image for any variant (images omitted, or a Map without the name)
NoImages(vs) == [n \in Names(vs) |-> None]

\* A call of paletteSwap before its first statement
Start ==
    /\ pc = "compile"
    /\ i = 0
    /\ x = 0
    /\ y = 0
    /\ palettes = <<>>
    /\ variants = <<>>
    /\ staticColorNumbers = None
    /\ missing = <<>>
    /\ results = <<>>
    /\ thrown = None

\* Calls over every source pixel, without prior images
InitRemap ==
    /\ image \in ImagesOver(SourcePixels)
    /\ inputVariants \in VariantInputs
    /\ staticColors \in StaticInputs
    /\ images = NoImages(inputVariants)
    /\ ignoreMissing \in BOOLEAN
    /\ Start

\* Calls with prior images
InitDiff ==
    /\ image \in ImagesOver(PriorPixels)
    /\ inputVariants \in {<<Variant(2, TableEmpty)>>,
                          <<Variant(2, TableFull), Variant(3, UniformHue(220))>>}
    /\ staticColors = Some({HexBlack})
    /\ images \in [Names(inputVariants) -> {None} \cup {Some(p) : p \in ImagesOver(PriorPixels)}]
    /\ ignoreMissing = FALSE
    /\ Start

Init == InitRemap \/ InitDiff

---------------------------------------------------------------------------
\* paletteSwap

\* lines 148-153 for the entries of one table from entry k on: the palettes Map
\* after them, and whether hexToInt32 threw (hex.slice of a number is no function)
RECURSIVE CompileEntries(_, _, _, _)
CompileEntries(entries, k, idx, pal) ==
    IF k > Len(entries) THEN [palettes |-> pal, threw |-> FALSE]
    ELSE LET key == entries[k][1]
             value == entries[k][2]
             kk == hexToInt32(key)
             v == IF kk \in DOMAIN pal THEN pal[kk] ELSE <<>>
         IN  IF value.type = "number" THEN [palettes |-> pal, threw |-> TRUE]
             ELSE LET vv == [j \in (DOMAIN v) \cup {idx} |->
                                IF j = idx THEN hexToInt32(value.hex) ELSE v[j]]
                  IN  CompileEntries(entries, k + 1, idx,
                          [c \in (DOMAIN pal) \cup {kk} |-> IF c = kk THEN vv ELSE pal[c]])

\* One turn of the loop over inputVariants (lines 142-163)
CompileVariant ==
    /\ pc = "compile"
    /\ i < Len(inputVariants)
    /\ LET variant == inputVariants[i + 1].name
           palette == inputVariants[i + 1].palette
           newImageData == [width |-> image.width, height |-> image.height,
                            data |-> ZeroData(image.width, image.height)]
           compiled == IF palette.type # "number"
                       THEN CompileEntries(palette.entries, 1, i, palettes)
                       ELSE [palettes |-> palettes, threw |-> FALSE]
       IN  /\ palettes' = compiled.palettes
           /\ IF compiled.threw
              THEN /\ pc' = "thrown"
                   /\ thrown' = Some([kind |-> "TypeError", colors |-> <<>>, names |-> <<>>])
                   /\ UNCHANGED <<variants, i>>
              ELSE /\ variants' = Append(variants,
                          [name |-> variant, imageData |-> newImageData,
                           hue |-> IF palette.type = "number" THEN Some(palette.number)
                                   ELSE None])
                   /\ i' = i + 1
                   /\ UNCHANGED <<pc, thrown>>
    /\ UNCHANGED <<image, inputVariants, staticColors, images, ignoreMissing, x, y,
                   staticColorNumbers, missing, results>>

\* Lines 164-168: the static colours as packed numbers, the empty missing set
CompileStatic ==
    /\ pc = "compile"
    /\ i = Len(inputVariants)
    /\ staticColorNumbers' = IF staticColors # None
                             THEN Some({hexToInt32(h) : h \in staticColors[1]})
                             ELSE None
    /\ missing' = <<>>
    /\ y' = 0
    /\ x' = 0
    /\ pc' = "scan"
    /\ UNCHANGED <<image, inputVariants, staticColors, images, ignoreMissing, i,
                   palettes, variants, results, thrown>>

\* a JS number used as a condition
Truthy(n) == n # 0

\* The loop over the variants for one pixel (lines 181-198), from variant k on:
\* the variants and the missing set after it
RECURSIVE ScanVariants(_, _, _, _, _)
ScanVariants(k, index, originalColor, vs, miss) ==
    IF k > Len(vs) THEN [variants |-> vs, missing |-> miss]
    ELSE LET a == AlphaOf(originalColor)
             color == ColorOf(originalColor)
             isStatic == staticColorNumbers # None /\ color \in staticColorNumbers[1]
             colors == IF ~isStatic /\ color \in DOMAIN palettes
                       THEN Some(palettes[color]) ELSE None
             hue == vs[k].hue
             write(word) == [vs EXCEPT ![k].imageData.data[index + 1] = word]
         IN  IF isStatic
                 THEN ScanVariants(k + 1, index, originalColor, write(originalColor), miss)
             ELSE IF hue # None /\ Truthy(hue[1])
                 THEN ScanVariants(k + 1, index, originalColor,
                          write(PackWord(a, applyHue(int32ToRgb(color), hue[1]))), miss)
             ELSE IF colors # None /\ (k - 1) \in DOMAIN colors[1] /\ Truthy(colors[1][k - 1])
                 THEN ScanVariants(k + 1, index, originalColor,
                          write(PackWord(a, colors[1][k - 1])), miss)
             ELSE IF staticColorNumbers = None
                 THEN ScanVariants(k + 1, index, originalColor, write(originalColor), miss)
             ELSE ScanVariants(k + 1, index, originalColor, vs,
                      Append(miss, <<vs[k].name, color>>))

\* One turn of the loop over x (lines 170-199)
ScanPixel ==
    /\ pc = "scan"
    /\ y < image.height
    /\ x < image.width
    /\ LET index == y * image.width + x
           originalColor == image.data[index + 1]
           a == AlphaOf(originalColor)
           scanned == ScanVariants(1, index, originalColor, variants, missing)
       IN  IF a = 0
           THEN UNCHANGED <<variants, missing>>
           ELSE /\ variants' = scanned.variants
                /\ missing' = scanned.missing
    /\ x' = x + 1
    /\ UNCHANGED <<image, inputVariants, staticColors, images, ignoreMissing, pc, i, y,
                   palettes, staticColorNumbers, results, thrown>>

\* Array.from(new Set(seq)): the distinct elements, first seen first
RECURSIVE Distinct(_)
Distinct(seq) ==
    IF seq = <<>> THEN <<>>
    ELSE LET front == Distinct(SubSeq(seq, 1, Len(seq) - 1))
             last == seq[Len(seq)]
         IN  IF \E k \in 1..Len(front) : front[k] = last THEN front ELSE Append(front, last)

\* The message of the Error of lines 202-210: the colours and the variants it lists
MissingMessage(miss) ==
    [kind |-> "Error",
     colors |-> Distinct([k \in 1..Len(miss) |-> int32ToHex(miss[k][2])]),
     names |-> Distinct([k \in 1..Len(miss) |-> miss[k][1]])]

\* The end of one turn of the loop over y (lines 201-211), and the loop's exit
RowEnd ==
    /\ pc = "scan"
    /\ y < image.height
    /\ x = image.width
    /\ IF ~ignoreMissing /\ Len(missing) # 0
       THEN /\ pc' = "thrown"
            /\ thrown' = Some(MissingMessage(missing))
            /\ UNCHANGED <<x, y, i>>
       ELSE /\ y' = y + 1
            /\ x' = 0
            /\ pc' = IF y + 1 < image.height THEN "scan" ELSE "diff"
            /\ i' = 0
            /\ UNCHANGED thrown
    /\ UNCHANGED <<image, inputVariants, staticColors, images, ignoreMissing,
                   palettes, variants, staticColorNumbers, missing, results>>

\* One turn of the loop of lines 214-229
DiffVariant ==
    /\ pc = "diff"
    /\ i < Len(variants)
    /\ LET name == variants[i + 1].name
           existingImage == images[name]
           existingImageData ==
               IF existingImage # None
               THEN Some(GetImageData(existingImage[1], image.width, image.height))
               ELSE None
           newImageData == variants[i + 1].imageData
       IN  IF existingImageData = None \/ ~equals(newImageData, existingImageData[1])
           THEN results' = Append(results, [name |-> name, data |-> newImageData.data])
           ELSE UNCHANGED results
    /\ i' = i + 1
    /\ UNCHANGED <<image, inputVariants, staticColors, images, ignoreMissing, pc, x, y,
                   palettes, variants, staticColorNumbers, missing, thrown>>

\* return results (line 231)
Return ==
    /\ pc = "diff"
    /\ i = Len(variants)
    /\ pc' = "done"
    /\ UNCHANGED <<image, inputVariants, staticColors, images, ignoreMissing, i, x, y,
                   palettes, variants, staticColorNumbers, missing, results, thrown>>

Next == CompileVariant \/ CompileStatic \/ ScanPixel \/ RowEnd \/ DiffVariant \/ Return

Spec == Init /\ [][Next]_vars

---------------------------------------------------------------------------
\* What the claims speak of

\* the number of pixels the pixel loop has been through
ScannedCount ==
    CASE pc \in {"diff", "done"} -> image.width * image.height
      [] pc \in {"scan", "thrown"} -> y * image.width + x
      [] OTHER -> 0

\* the number of variants the diff loop has been through
DiffedCount ==
    CASE pc = "diff" -> i
      [] pc = "done" -> Len(variants)
      [] OTHER -> 0

Source(idx) == image.data[idx]
Out(k, idx) == variants[k].imageData.data[idx]

\* the pixel's own colour as '#rrggbb': red first, then green, then blue
OwnHex(word) ==
    <<word[1] \div 16, word[1] % 16, word[2] \div 16, word[2] % 16,
      word[3] \div 16, word[3] % 16>>

\* the red, green and blue bytes a HEX string '#rrggbb' spells
HexBytes(h) == <<16 * h[1] + h[2], 16 * h[3] + h[4], 16 * h[5] + h[6]>>

InStaticColors(word) == staticColors # None /\ OwnHex(word) \in staticColors[1]

IsTable(k) == inputVariants[k].palette.type = "object"
Entries(k) == inputVariants[k].palette.entries
HasEntry(k, h) == IsTable(k) /\ \E e \in 1..Len(Entries(k)) : Entries(k)[e][1] = h
EntryValue(k, h) ==
    Entries(k)[CHOOSE e \in 1..Len(Entries(k)) : Entries(k)[e][1] = h][2]

\* the table of variant k maps h to a fixed colour / to a non-zero Hue
FixedTarget(k, h) == HasEntry(k, h) /\ EntryValue(k, h).type = "string"
HueTarget(k, h) ==
    HasEntry(k, h) /\ EntryValue(k, h).type = "number" /\ EntryValue(k, h).number # 0
UniformRule(k) ==
    inputVariants[k].palette.type = "number" /\ inputVariants[k].palette.number # 0

\* variant k is a colour table with no entry for the pixel's colour, and the pixel
\* is neither transparent nor static
Unmapped(k, word) ==
    /\ AlphaOf(word) # 0
    /\ ~InStaticColors(word)
    /\ IsTable(k)
    /\ ~HasEntry(k, OwnHex(word))

Recorded(name, word) ==
    \E m \in 1..Len(missing) : missing[m] = <<name, ColorOf(word)>>

ThrownMissing == pc = "thrown" /\ thrown[1].kind = "Error"

InResults(name) == \E r \in 1..Len(results) : results[r].name = name

AllPixels == 1..(image.width * image.height)
AllVariants == 1..Len(inputVariants)

---------------------------------------------------------------------------
\* The claims

\* C1: the missing-mapping error is raised only after every pixel of the whole
\* image has been classified, and it lists every affected variant and every
\* missing colour found anywhere in the image (the colours: as entries of the
\* missing set the message is written from).
C1_RaisedAfterWholeImage ==
    ThrownMissing =>
        /\ ScannedCount = image.width * image.height
        /\ \A idx \in AllPixels : \A k \in AllVariants :
              Unmapped(k, Source(idx)) =>
                  /\ \E n \in 1..Len(thrown[1].names) :
                        thrown[1].names[n] = inputVariants[k].name
                  /\ Recorded(inputVariants[k].name, Source(idx))

\* C2: a non-transparent, non-static pixel whose colour a variant's table maps to a
\* fixed colour T is written as T's red, green and blue bytes with the source
\* alpha, and is not recorded as missing.
C2_FixedTargetWritten ==
    \A idx \in 1..ScannedCount : \A k \in 1..Len(variants) :
        LET px == Source(idx) IN
        (AlphaOf(px) # 0 /\ ~InStaticColors(px) /\ FixedTarget(k, OwnHex(px))) =>
            LET t == HexBytes(EntryValue(k, OwnHex(px)).hex)
            IN  /\ Out(k, idx) = <<t[1], t[2], t[3], AlphaOf(px)>>
                /\ ~Recorded(variants[k].name, px)

\* C3: the message of the missing-mapping error contains the own hex colour
\* '#rrggbb' of every classified pixel that is neither transparent nor static and
\* has no entry in some variant's table.
C3_MessageHasOwnHex ==
    ThrownMissing =>
        \A idx \in 1..ScannedCount :
            (\E k \in AllVariants : Unmapped(k, Source(idx))) =>
                \E c \in 1..Len(thrown[1].colors) : thrown[1].colors[c] = OwnHex(Source(idx))

\* C4: with a table that maps a colour to a non-zero Hue the call does not end in
\* a TypeError, and every non-transparent, non-static pixel of that colour is
\* written as the pixel rotated to that hue with the source alpha.
C4_HueEntryRotates ==
    \A k \in AllVariants :
        (IsTable(k) /\ \E e \in 1..Len(Entries(k)) : HueTarget(k, Entries(k)[e][1])) =>
            /\ ~(pc = "thrown" /\ thrown[1].kind = "TypeError")
            /\ \A idx \in 1..ScannedCount :
                  LET px == Source(idx) IN
                  (AlphaOf(px) # 0 /\ ~InStaticColors(px) /\ HueTarget(k, OwnHex(px))) =>
                      Out(k, idx) =
                          PackWord(AlphaOf(px),
                                   applyHue(int32ToRgb(ColorOf(px)),
                                            EntryValue(k, OwnHex(px)).number))

\* C5: a source pixel of alpha 0 has the same four bytes in every variant's output.
C5_TransparentCopied ==
    \A idx \in 1..ScannedCount : \A k \in 1..Len(variants) :
        AlphaOf(Source(idx)) = 0 => Out(k, idx) = Source(idx)

\* C6: a source pixel whose colour is in staticColors has the same four bytes in
\* every variant's output and is not recorded as missing.
C6_StaticCopied ==
    \A idx \in 1..ScannedCount : \A k \in 1..Len(variants) :
        InStaticColors(Source(idx)) =>
            /\ Out(k, idx) = Source(idx)
            /\ ~Recorded(variants[k].name, Source(idx))

\* C7: without staticColors no missing-mapping error is raised, and a pixel whose
\* colour has no entry in a colour table is written unchanged in that variant.
C7_NoStaticPassthrough ==
    staticColors = None =>
        /\ ~ThrownMissing
        /\ \A idx \in 1..ScannedCount : \A k \in 1..Len(variants) :
              (IsTable(k) /\ ~HasEntry(k, OwnHex(Source(idx)))) =>
                  Out(k, idx) = Source(idx)

\* C8: a variant is absent from the result when its prior image has the source's
\* dimensions and the computed output's bytes; it is present when that prior image
\* differs in a byte, and when there is no prior image.
C8_DiffSuppression ==
    \A k \in 1..DiffedCount :
        LET name == variants[k].name
            prior == images[name]
            out == variants[k].imageData.data
            sameSize == prior[1].width = image.width /\ prior[1].height = image.height
        IN  /\ prior = None => InResults(name)
            /\ (prior # None /\ sameSize /\ prior[1].data = out) => ~InResults(name)
            /\ (prior # None /\ sameSize /\ prior[1].data # out) => InResults(name)

\* a finished call with one variant suppressed by an equal prior image and one
\* present because of a prior image that differs
C8_Witness ==
    /\ pc = "done"
    /\ \E k \in 1..Len(variants) :
          LET prior == images[variants[k].name] IN
          /\ prior # None
          /\ prior[1].width = image.width /\ prior[1].height = image.height
          /\ prior[1].data = variants[k].imageData.data
          /\ ~InResults(variants[k].name)
    /\ \E k \in 1..Len(variants) :
          LET prior == images[variants[k].name] IN
          /\ prior # None
          /\ prior[1].width = image.width /\ prior[1].height = image.height
          /\ prior[1].data # variants[k].imageData.data
          /\ InResults(variants[k].name)

\* C9: a variant whose prior image has another width or height than the source is
\* present in the result.
C9_OtherSizeIsChanged ==
    \A k \in 1..DiffedCount :
        LET prior == images[variants[k].name] IN
        (prior # None /\ (prior[1].width # image.width \/ prior[1].height # image.height))
            => InResults(variants[k].name)

\* the pixel is remapped in variant k: by a non-zero uniform hue, or by a table
\* entry for its colour that is a fixed colour other than '#000000'
Remapped(k, word) ==
    /\ AlphaOf(word) # 0
    /\ ~InStaticColors(word)
    /\ \/ UniformRule(k)
       \/ /\ FixedTarget(k, OwnHex(word))
          /\ EntryValue(k, OwnHex(word)).hex # HexBlack

\* C10: a remapped pixel keeps the source pixel's alpha byte.
C10_AlphaPreserved ==
    \A idx \in 1..ScannedCount : \A k \in 1..Len(variants) :
        Remapped(k, Source(idx)) =>
            Out(k, idx)[4] = AlphaOf(Source(idx))

\* a half-transparent pixel has been remapped by a uniform hue, and one by a
\* table entry
C10_Witness ==
    /\ \E idx \in 1..ScannedCount : \E k \in 1..Len(variants) :
          /\ Remapped(k, Source(idx))
          /\ UniformRule(k)
          /\ AlphaOf(Source(idx)) = 128
    /\ \E idx \in 1..ScannedCount : \E k \in 1..Len(variants) :
          /\ Remapped(k, Source(idx))
          /\ IsTable(k)
          /\ AlphaOf(Source(idx)) \in 1..254

====
